---------------------------- MODULE Spec2Model ----------------------------
(***************************************************************************)
(* Model of package health (github.com/andres-vara/health).                *)
(*                                                                         *)
(* The shared handler (src/unnamed/part_000): one process-wide             *)
(* healthHandler {status, reason, useJSON, mutex}, the setters and getters *)
(* that lock its mutex, and the three HTTP entry points that render it.    *)
(* The earlier form of the package (src/health.go), with package-level     *)
(* state and one handler object per mount, has a section of its own.       *)
(* Strings are sequences of one-character strings, so that bodies are      *)
(* built by concatenation and JSON encoding and decoding are computed,     *)
(* not assumed.                                                            *)
(***************************************************************************)
EXTENDS Integers, Sequences, FiniteSets, TLC

(* ------------------------------ bounds -------------------------------- *)

\* number of goroutines that call into the package
NumProcs == 2

\* longest reason string a caller passes
MaxReasonLen == 1

Procs == 1..NumProcs

NoProc == 0

\* a byte that is not valid UTF-8 (a Go string holds any bytes)
xFF == "xFF"

\* U+FFFD, the Unicode replacement character
uFFFD == "uFFFD"

\* what a reason is made of: a plain character, one that JSON escapes, and an invalid byte
Alphabet == {"a", "\"", xFF}

RECURSIVE StringsUpTo(_)
StringsUpTo(n) ==
    IF n = 0 THEN {<<>>}
    ELSE LET shorter == StringsUpTo(n - 1)
         IN  shorter \cup {Append(s, c) : s \in {t \in shorter : Len(t) = n - 1}, c \in Alphabet}

\* the reasons callers pass: "", and the strings over Alphabet up to the bound
Reasons == StringsUpTo(MaxReasonLen)

(* ------------------------- types and constants ------------------------ *)

Up == <<"U", "P">>

Down == <<"D", "O", "W", "N">>

\* Status is a string type: SetStatus accepts values other than Up and Down
Warn == <<"W", "A", "R", "N">>

Statuses == {Up, Down, Warn}

StatusOK == 200

StatusServiceUnavailable == 503

ApplicationJSON == "application/json"

(* ------------------------------ state --------------------------------- *)

VARIABLES
    status,     \* handler.status
    reason,     \* handler.reason
    useJSON,    \* handler.useJSON
    mutex,      \* handler.mutex: [writer: the goroutine in Lock()..Unlock(), readers: holders of RLock]
    pc,         \* per goroutine: where it is in the call it is making
    op,         \* per goroutine: the exported function it called
    arg,        \* per goroutine: the arguments of the call in progress
    local,      \* per goroutine: the locals status, reason, useJSON of the call in progress
    rw,         \* per goroutine: the http.ResponseWriter of the request in progress
    ret,        \* per goroutine: the value returned by the call
    mux,        \* the caller's router: per path, the handler registered
    want,       \* history: per path, the format its registration asked for
    issued,     \* history: the reasons passed to SetUnhealthy so far
    lastCall,   \* history: the effect of the SetHealthy/SetUnhealthy call that returned last
    lastJSON,   \* history: the argument of the WithJSON call that returned last
    healthyRun, \* history: the SetHealthy calls made in a row, and the pair the first one left
    separate    \* history: SetStatus(s) returned last (n = 1), or SetStatus(s) then SetReason(r) (n = 2)

vars ==
    <<status, reason, useJSON, mutex, pc, op, arg, local, rw, ret, mux, want, issued, lastCall,
      lastJSON, healthyRun, separate>>

\* the paths the example server mounts
Paths == {"/health", "/health/json"}

store == <<status, reason, useJSON>>

\* the router and the history variables: no step of a call touches them
history == <<issued, lastCall, lastJSON, healthyRun, separate, mux, want>>

\* the key named "request_id" as a plain string, and as the package's RequestIDKey
StringKey == "string"

RequestIDKey == "ContextKey"

\* a context without a request identifier; also what a lookup that finds nothing yields
NoValue == [key |-> "none", kind |-> "nil", s |-> <<>>]

\* the request contexts: context.WithValue(ctx, key, value) for a key named "request_id"
\* of either type and a value that is a string or of another type, or no such entry
CtxValues ==
    {NoValue,
     [key |-> StringKey, kind |-> "string", s |-> <<>>],
     [key |-> StringKey, kind |-> "string", s |-> <<"i", "d">>],
     [key |-> StringKey, kind |-> "int", s |-> <<>>],
     [key |-> RequestIDKey, kind |-> "string", s |-> <<"i", "d">>]}

\* ctx.Value(k): a key matches when its type and its name are those of k
Value(ctx, k) == IF ctx.key = k THEN ctx ELSE NoValue

NoArg == [status |-> Up, reason |-> <<>>, v |-> FALSE, ctx |-> NoValue, path |-> ""]

NoLocal == [status |-> <<>>, reason |-> <<>>, useJSON |-> FALSE]

NoRet == <<>>

\* a fresh response writer: no header set, nothing written
NoHeader == [ContentType |-> "", XRequestID |-> <<>>]

NewRecorder ==
    [header |-> NoHeader, wroteHeader |-> FALSE, code |-> 0, sentHeader |-> NoHeader, body |-> <<>>]

Init ==
    /\ status = Up
    /\ reason = <<>>
    /\ useJSON = FALSE
    /\ mutex = [writer |-> NoProc, readers |-> {}]
    /\ pc = [p \in Procs |-> <<"idle", "">>]
    /\ op = [p \in Procs |-> "none"]
    /\ arg = [p \in Procs |-> NoArg]
    /\ local = [p \in Procs |-> NoLocal]
    /\ rw = [p \in Procs |-> NewRecorder]
    /\ ret = [p \in Procs |-> NoRet]
    /\ mux = [q \in Paths |-> "nil"]
    /\ want = [q \in Paths |-> FALSE]
    /\ issued = {}
    /\ lastCall = [status |-> Up, reason |-> <<>>]
    /\ lastJSON = FALSE
    /\ healthyRun = [n |-> 0, status |-> <<>>, reason |-> <<>>]
    /\ separate = [n |-> 0, status |-> <<>>, reason |-> <<>>]

(* ------------------------ sync.RWMutex ------------------------------- *)
(* pc[p] = <<function, step>>.  Lock() first takes the writer slot, which *)
(* keeps new readers out, then waits for the readers inside to leave.     *)

Idle == <<"idle", "">>

Done == <<"done", "">>

\* where a function returns to, given the exported call it serves
ReturnFrom(p, fn) ==
    CASE fn = "SetStatus" /\ op[p] \in {"SetHealthy", "SetUnhealthy"} -> <<op[p], "SetReason">>
      [] fn = "getStatus" -> <<op[p], "write">>
      [] fn = "JSONHealthHandler" -> <<"JSONHealthHandler", "write">>
      [] fn = "HealthHandler.ServeHTTP" -> <<"HealthHandler.ServeHTTP", "write">>
      [] OTHER -> Done

\* mutex.Lock(), first half: become the pending writer
MutexLock(p) ==
    /\ pc[p][2] = "Lock"
    /\ mutex.writer = NoProc
    /\ mutex' = [mutex EXCEPT !.writer = p]
    /\ pc' = [pc EXCEPT ![p] = <<pc[p][1], "LockWait">>]
    /\ UNCHANGED <<store, op, arg, local, rw, ret, history>>

\* Lock, were a writer not to wait for the readers inside
MutexLockWaitSkipsReaders(p) ==
    /\ pc[p][2] = "LockWait"
    /\ pc' = [pc EXCEPT ![p] = <<pc[p][1], "write">>]
    /\ UNCHANGED <<store, mutex, op, arg, local, rw, ret, history>>

\* mutex.Lock(), second half: the readers have left
MutexLockWait(p) ==
    /\ pc[p][2] = "LockWait"
    /\ mutex.readers = {}
    /\ pc' = [pc EXCEPT ![p] = <<pc[p][1], "write">>]
    /\ UNCHANGED <<store, mutex, op, arg, local, rw, ret, history>>

\* the deferred mutex.Unlock(), and the return
MutexUnlock(p) ==
    /\ pc[p][2] = "Unlock"
    /\ mutex' = [mutex EXCEPT !.writer = NoProc]
    /\ pc' = [pc EXCEPT ![p] = ReturnFrom(p, pc[p][1])]
    /\ UNCHANGED <<store, op, arg, local, rw, ret, history>>

\* mutex.RLock(): blocked while a writer holds or waits for the lock
MutexRLock(p) ==
    /\ pc[p][2] = "RLock"
    /\ mutex.writer = NoProc
    /\ mutex' = [mutex EXCEPT !.readers = @ \cup {p}]
    /\ pc' = [pc EXCEPT ![p] = <<pc[p][1], "read">>]
    /\ UNCHANGED <<store, op, arg, local, rw, ret, history>>

\* RUnlock, were the read lock not given back
MutexRUnlockLeaks(p) ==
    /\ pc[p][2] = "RUnlock"
    /\ pc' = [pc EXCEPT ![p] = ReturnFrom(p, pc[p][1])]
    /\ UNCHANGED <<store, mutex, op, arg, local, rw, ret, history>>

\* mutex.RUnlock(), and the return where it is deferred
MutexRUnlock(p) ==
    /\ pc[p][2] = "RUnlock"
    /\ mutex' = [mutex EXCEPT !.readers = @ \ {p}]
    /\ pc' = [pc EXCEPT ![p] = ReturnFrom(p, pc[p][1])]
    /\ UNCHANGED <<store, op, arg, local, rw, ret, history>>

(* ------------------------ the status store ---------------------------- *)

\* SetStatus, were it to clear the reason when the status becomes Up
SetStatusClearsReason(p) ==
    /\ pc[p] = <<"SetStatus", "write">>
    /\ status' = arg[p].status
    /\ reason' = IF arg[p].status = Up THEN <<>> ELSE reason
    /\ pc' = [pc EXCEPT ![p] = <<"SetStatus", "Unlock">>]
    /\ UNCHANGED <<useJSON, mutex, op, arg, local, rw, ret, history>>

\* handler.status = status, under the lock
SetStatus(p) ==
    /\ pc[p] = <<"SetStatus", "write">>
    /\ status' = arg[p].status
    /\ pc' = [pc EXCEPT ![p] = <<"SetStatus", "Unlock">>]
    /\ UNCHANGED <<reason, useJSON, mutex, op, arg, local, rw, ret, history>>

\* SetReason, were it to ignore an empty reason
SetReasonSkipsEmpty(p) ==
    /\ pc[p] = <<"SetReason", "write">>
    /\ reason' = IF arg[p].reason = <<>> THEN reason ELSE arg[p].reason
    /\ pc' = [pc EXCEPT ![p] = <<"SetReason", "Unlock">>]
    /\ UNCHANGED <<status, useJSON, mutex, op, arg, local, rw, ret, history>>

\* handler.reason = reason, under the lock
SetReason(p) ==
    /\ pc[p] = <<"SetReason", "write">>
    /\ reason' = arg[p].reason
    /\ pc' = [pc EXCEPT ![p] = <<"SetReason", "Unlock">>]
    /\ UNCHANGED <<status, useJSON, mutex, op, arg, local, rw, ret, history>>

\* SetHealthy, were it to stop after SetStatus(Up)
SetHealthyOnlyStatus(p) ==
    \/ /\ pc[p] = <<"SetHealthy", "SetStatus">>
       /\ arg' = [arg EXCEPT ![p].status = Up]
       /\ pc' = [pc EXCEPT ![p] = <<"SetStatus", "Lock">>]
       /\ UNCHANGED <<store, mutex, op, local, rw, ret, history>>
    \/ /\ pc[p] = <<"SetHealthy", "SetReason">>
       /\ pc' = [pc EXCEPT ![p] = Done]
       /\ UNCHANGED <<store, mutex, op, arg, local, rw, ret, history>>

\* SetHealthy, were it to flip the status
SetHealthyToggles(p) ==
    \/ /\ pc[p] = <<"SetHealthy", "SetStatus">>
       /\ arg' = [arg EXCEPT ![p].status = IF status = Up THEN Down ELSE Up]
       /\ pc' = [pc EXCEPT ![p] = <<"SetStatus", "Lock">>]
       /\ UNCHANGED <<store, mutex, op, local, rw, ret, history>>
    \/ /\ pc[p] = <<"SetHealthy", "SetReason">>
       /\ arg' = [arg EXCEPT ![p].reason = <<>>]
       /\ pc' = [pc EXCEPT ![p] = <<"SetReason", "Lock">>]
       /\ UNCHANGED <<store, mutex, op, local, rw, ret, history>>

\* SetHealthy: SetStatus(Up), then SetReason("")
SetHealthy(p) ==
    \/ /\ pc[p] = <<"SetHealthy", "SetStatus">>
       /\ arg' = [arg EXCEPT ![p].status = Up]
       /\ pc' = [pc EXCEPT ![p] = <<"SetStatus", "Lock">>]
       /\ UNCHANGED <<store, mutex, op, local, rw, ret, history>>
    \/ /\ pc[p] = <<"SetHealthy", "SetReason">>
       /\ arg' = [arg EXCEPT ![p].reason = <<>>]
       /\ pc' = [pc EXCEPT ![p] = <<"SetReason", "Lock">>]
       /\ UNCHANGED <<store, mutex, op, local, rw, ret, history>>

\* SetUnhealthy, were it to leave the status alone
SetUnhealthySkipsStatus(p) ==
    \/ /\ pc[p] = <<"SetUnhealthy", "SetStatus">>
       /\ pc' = [pc EXCEPT ![p] = <<"SetUnhealthy", "SetReason">>]
       /\ UNCHANGED <<store, mutex, op, arg, local, rw, ret, history>>
    \/ /\ pc[p] = <<"SetUnhealthy", "SetReason">>
       /\ pc' = [pc EXCEPT ![p] = <<"SetReason", "Lock">>]
       /\ UNCHANGED <<store, mutex, op, arg, local, rw, ret, history>>

\* SetUnhealthy(reason): SetStatus(Down), then SetReason(reason)
SetUnhealthy(p) ==
    \/ /\ pc[p] = <<"SetUnhealthy", "SetStatus">>
       /\ arg' = [arg EXCEPT ![p].status = Down]
       /\ pc' = [pc EXCEPT ![p] = <<"SetStatus", "Lock">>]
       /\ UNCHANGED <<store, mutex, op, local, rw, ret, history>>
    \/ /\ pc[p] = <<"SetUnhealthy", "SetReason">>
       /\ pc' = [pc EXCEPT ![p] = <<"SetReason", "Lock">>]
       /\ UNCHANGED <<store, mutex, op, arg, local, rw, ret, history>>

\* return handler.status, under the read lock
GetStatus(p) ==
    /\ pc[p] = <<"GetStatus", "read">>
    /\ ret' = [ret EXCEPT ![p] = status]
    /\ pc' = [pc EXCEPT ![p] = <<"GetStatus", "RUnlock">>]
    /\ UNCHANGED <<store, mutex, op, arg, local, rw, history>>

\* return handler.reason, under the read lock
GetReason(p) ==
    /\ pc[p] = <<"GetReason", "read">>
    /\ ret' = [ret EXCEPT ![p] = reason]
    /\ pc' = [pc EXCEPT ![p] = <<"GetReason", "RUnlock">>]
    /\ UNCHANGED <<store, mutex, op, arg, local, rw, history>>

\* WithJSON, were it only able to switch JSON on
WithJSONOnlyEnables(p) ==
    /\ pc[p] = <<"WithJSON", "write">>
    /\ useJSON' = (useJSON \/ arg[p].v)
    /\ pc' = [pc EXCEPT ![p] = Done]
    /\ UNCHANGED <<status, reason, mutex, op, arg, local, rw, ret, history>>

\* h.useJSON = v: no lock is taken
WithJSON(p) ==
    /\ pc[p] = <<"WithJSON", "write">>
    /\ useJSON' = arg[p].v
    /\ pc' = [pc EXCEPT ![p] = Done]
    /\ UNCHANGED <<status, reason, mutex, op, arg, local, rw, ret, history>>

(* ------------------------ rendering ----------------------------------- *)

\* encoding/json's string encoding, for the characters of Alphabet and of the statuses:
\* quote and backslash are escaped, an invalid byte is written as \ufffd
RECURSIVE EscapeJSON(_)
EscapeJSON(s) ==
    IF s = <<>> THEN <<>>
    ELSE (CASE Head(s) \in {"\"", "\\"} -> <<"\\", Head(s)>>
            [] Head(s) = xFF -> <<"\\", "u", "f", "f", "f", "d">>
            [] OTHER -> <<Head(s)>>) \o EscapeJSON(Tail(s))

Quote(s) == <<"\"">> \o EscapeJSON(s) \o <<"\"">>

StatusKey == <<"\"", "s", "t", "a", "t", "u", "s", "\"", ":">>

ReasonKey == <<"\"", "r", "e", "a", "s", "o", "n", "\"", ":">>

\* json.Marshal(responseBody{Status, Reason}); Reason is tagged omitempty
Marshal(rb) ==
    <<"{">> \o StatusKey \o Quote(rb.Status)
        \o (IF rb.Reason = <<>> THEN <<>> ELSE <<",">> \o ReasonKey \o Quote(rb.Reason))
        \o <<"}">>

\* Render, were it to answer 503 only when there is a reason to show
RenderCodeNeedsReason(st, rs, json) ==
    [statusCode |-> IF st = Down /\ rs # <<>> THEN StatusServiceUnavailable ELSE StatusOK,
     body |-> IF json
              THEN Marshal([Status |-> st, Reason |-> rs])
              ELSE st \o <<":", " ">> \o rs,
     useJSON |-> json]

\* Render, were the plain text to leave out ": " when there is no reason
RenderBareStatus(st, rs, json) ==
    [statusCode |-> IF st = Up THEN StatusOK ELSE StatusServiceUnavailable,
     body |-> IF json
              THEN Marshal([Status |-> st, Reason |-> rs])
              ELSE IF rs = <<>> THEN st ELSE st \o <<":", " ">> \o rs,
     useJSON |-> json]

\* getStatus, after the lock is released: the body and the status code
Render(st, rs, json) ==
    [statusCode |-> IF st = Up THEN StatusOK ELSE StatusServiceUnavailable,
     body |-> IF json
              THEN Marshal([Status |-> st, Reason |-> rs])
              ELSE st \o <<":", " ">> \o rs,
     useJSON |-> json]

(* ------------------------ http.ResponseWriter ------------------------- *)

HeaderSet(w, key, value) == [w EXCEPT !.header[key] = value]

\* the status line and the headers set so far are committed
WriteHeader(w, code) ==
    IF w.wroteHeader THEN w
    ELSE [w EXCEPT !.wroteHeader = TRUE, !.code = code, !.sentHeader = w.header]

Write(w, body) ==
    LET w1 == WriteHeader(w, StatusOK)
    IN  [w1 EXCEPT !.body = @ \o body]

\* requestID, ok := ctx.Value("request_id").(string); ok && requestID != ""
ForwardRequestID(w, ctx) ==
    LET requestID == Value(ctx, StringKey)
    IN  IF requestID.kind = "string" /\ requestID.s # <<>>
        THEN HeaderSet(w, "XRequestID", requestID.s)
        ELSE w

(* ------------------------ the handlers -------------------------------- *)

\* getStatus, were reading the reason to consume it
getStatusConsumesReason(p) ==
    \/ /\ pc[p] = <<"getStatus", "read">>
       /\ local' = [local EXCEPT ![p].status = status]
       /\ pc' = [pc EXCEPT ![p] = <<"getStatus", "readReason">>]
       /\ UNCHANGED <<store, mutex, op, arg, rw, ret, history>>
    \/ /\ pc[p] = <<"getStatus", "readReason">>
       /\ local' = [local EXCEPT ![p].reason = reason]
       /\ reason' = <<>>
       /\ pc' = [pc EXCEPT ![p] = <<"getStatus", "readUseJSON">>]
       /\ UNCHANGED <<status, useJSON, mutex, op, arg, rw, ret, history>>
    \/ /\ pc[p] = <<"getStatus", "readUseJSON">>
       /\ local' = [local EXCEPT ![p].useJSON = useJSON]
       /\ pc' = [pc EXCEPT ![p] = <<"getStatus", "RUnlock">>]
       /\ UNCHANGED <<store, mutex, op, arg, rw, ret, history>>

\* getStatus, under the read lock: status, reason and useJSON are read one after another
getStatus(p) ==
    \/ /\ pc[p] = <<"getStatus", "read">>
       /\ local' = [local EXCEPT ![p].status = status]
       /\ pc' = [pc EXCEPT ![p] = <<"getStatus", "readReason">>]
       /\ UNCHANGED <<store, mutex, op, arg, rw, ret, history>>
    \/ /\ pc[p] = <<"getStatus", "readReason">>
       /\ local' = [local EXCEPT ![p].reason = reason]
       /\ pc' = [pc EXCEPT ![p] = <<"getStatus", "readUseJSON">>]
       /\ UNCHANGED <<store, mutex, op, arg, rw, ret, history>>
    \/ /\ pc[p] = <<"getStatus", "readUseJSON">>
       /\ local' = [local EXCEPT ![p].useJSON = useJSON]
       /\ pc' = [pc EXCEPT ![p] = <<"getStatus", "RUnlock">>]
       /\ UNCHANGED <<store, mutex, op, arg, rw, ret, history>>

\* healthHandler.ServeHTTP, once getStatus has returned
ServeHTTP(p) ==
    /\ pc[p] = <<"ServeHTTP", "write">>
    /\ LET r  == Render(local[p].status, local[p].reason, local[p].useJSON)
           w1 == IF r.useJSON THEN HeaderSet(rw[p], "ContentType", ApplicationJSON) ELSE rw[p]
           w2 == WriteHeader(w1, r.statusCode)
       IN  rw' = [rw EXCEPT ![p] = Write(w2, r.body)]
    /\ pc' = [pc EXCEPT ![p] = Done]
    /\ UNCHANGED <<store, mutex, op, arg, local, ret, history>>

\* the shttp handler returned by HealthHandler(), once getStatus has returned
HealthHandler(p) ==
    /\ pc[p] = <<"HealthHandler", "write">>
    /\ LET r  == Render(local[p].status, local[p].reason, local[p].useJSON)
           w1 == IF r.useJSON THEN HeaderSet(rw[p], "ContentType", ApplicationJSON) ELSE rw[p]
           w2 == ForwardRequestID(w1, arg[p].ctx)
           w3 == WriteHeader(w2, r.statusCode)
       IN  rw' = [rw EXCEPT ![p] = Write(w3, r.body)]
    /\ ret' = [ret EXCEPT ![p] = <<"nil">>]
    /\ pc' = [pc EXCEPT ![p] = Done]
    /\ UNCHANGED <<store, mutex, op, arg, local, history>>

\* JSONHealthHandler, were it to render as the handler is configured
JSONHealthHandlerAsConfigured(p) ==
    \/ /\ pc[p] = <<"JSONHealthHandler", "read">>
       /\ local' = [local EXCEPT ![p].status = status]
       /\ pc' = [pc EXCEPT ![p] = <<"JSONHealthHandler", "readReason">>]
       /\ UNCHANGED <<store, mutex, op, arg, rw, ret, history>>
    \/ /\ pc[p] = <<"JSONHealthHandler", "readReason">>
       /\ local' = [local EXCEPT ![p].reason = reason, ![p].useJSON = useJSON]
       /\ pc' = [pc EXCEPT ![p] = <<"JSONHealthHandler", "RUnlock">>]
       /\ UNCHANGED <<store, mutex, op, arg, rw, ret, history>>
    \/ /\ pc[p] = <<"JSONHealthHandler", "write">>
       /\ LET r    == Render(local[p].status, local[p].reason, local[p].useJSON)
              w1   == IF r.useJSON THEN HeaderSet(rw[p], "ContentType", ApplicationJSON) ELSE rw[p]
              w2   == ForwardRequestID(w1, arg[p].ctx)
              code == IF local[p].status = Down THEN StatusServiceUnavailable ELSE StatusOK
              w3   == WriteHeader(w2, code)
          IN  rw' = [rw EXCEPT ![p] = Write(w3, r.body)]
       /\ ret' = [ret EXCEPT ![p] = <<"nil">>]
       /\ pc' = [pc EXCEPT ![p] = Done]
       /\ UNCHANGED <<store, mutex, op, arg, local, history>>

\* the shttp handler returned by JSONHealthHandler()
JSONHealthHandler(p) ==
    \/ /\ pc[p] = <<"JSONHealthHandler", "read">>
       /\ local' = [local EXCEPT ![p].status = status]
       /\ pc' = [pc EXCEPT ![p] = <<"JSONHealthHandler", "readReason">>]
       /\ UNCHANGED <<store, mutex, op, arg, rw, ret, history>>
    \/ /\ pc[p] = <<"JSONHealthHandler", "readReason">>
       /\ local' = [local EXCEPT ![p].reason = reason]
       /\ pc' = [pc EXCEPT ![p] = <<"JSONHealthHandler", "RUnlock">>]
       /\ UNCHANGED <<store, mutex, op, arg, rw, ret, history>>
    \/ /\ pc[p] = <<"JSONHealthHandler", "write">>
       /\ LET body == Marshal([Status |-> local[p].status, Reason |-> local[p].reason])
              w1   == HeaderSet(rw[p], "ContentType", ApplicationJSON)
              w2   == ForwardRequestID(w1, arg[p].ctx)
              code == IF local[p].status = Down THEN StatusServiceUnavailable ELSE StatusOK
              w3   == WriteHeader(w2, code)
          IN  rw' = [rw EXCEPT ![p] = Write(w3, body)]
       /\ ret' = [ret EXCEPT ![p] = <<"nil">>]
       /\ pc' = [pc EXCEPT ![p] = Done]
       /\ UNCHANGED <<store, mutex, op, arg, local, history>>

(* ------------------------ src/health.go ------------------------------- *)
(* The earlier form of the package: status, reason and mutex stand for the *)
(* package-level currentStatus, currentReason and mu; SetHealthy and       *)
(* SetUnhealthy write both fields under one Lock; every Handler() is a new *)
(* HealthHandler with its own useJSON, fixed before it serves (arg.v).     *)
(* SetStatus, SetReason, GetStatus and GetReason are as above.             *)

TextPlain == "text/plain"

\* health.go SetHealthy: currentStatus = Up; currentReason = "", under the lock
SetHealthyLocked(p) ==
    /\ pc[p] = <<"health.SetHealthy", "write">>
    /\ status' = Up
    /\ reason' = <<>>
    /\ pc' = [pc EXCEPT ![p] = <<"health.SetHealthy", "Unlock">>]
    /\ UNCHANGED <<useJSON, mutex, op, arg, local, rw, ret, history>>

\* health.go SetUnhealthy: currentStatus = Down; currentReason = reason, under the lock
SetUnhealthyLocked(p) ==
    /\ pc[p] = <<"health.SetUnhealthy", "write">>
    /\ status' = Down
    /\ reason' = arg[p].reason
    /\ pc' = [pc EXCEPT ![p] = <<"health.SetUnhealthy", "Unlock">>]
    /\ UNCHANGED <<useJSON, mutex, op, arg, local, rw, ret, history>>

\* json.NewEncoder(w).Encode(response): the encoding and a newline
Encode(rb) == Marshal(rb) \o <<"\n">>

\* health.go HealthHandler.ServeHTTP
HealthHandlerServeHTTP(p) ==
    \/ /\ pc[p] = <<"HealthHandler.ServeHTTP", "read">>
       /\ local' = [local EXCEPT ![p].status = status, ![p].useJSON = arg[p].v]
       /\ pc' = [pc EXCEPT ![p] = <<"HealthHandler.ServeHTTP", "readReason">>]
       /\ UNCHANGED <<store, mutex, op, arg, rw, ret, history>>
    \/ /\ pc[p] = <<"HealthHandler.ServeHTTP", "readReason">>
       /\ local' = [local EXCEPT ![p].reason = reason]
       /\ pc' = [pc EXCEPT ![p] = <<"HealthHandler.ServeHTTP", "RUnlock">>]
       /\ UNCHANGED <<store, mutex, op, arg, rw, ret, history>>
    \/ /\ pc[p] = <<"HealthHandler.ServeHTTP", "write">>
       /\ LET st       == local[p].status
              rs       == local[p].reason
              w1       == WriteHeader(rw[p], IF st = Down THEN StatusServiceUnavailable ELSE StatusOK)
              response == [Status |-> st, Reason |-> IF st = Down /\ rs # <<>> THEN rs ELSE <<>>]
          IN  rw' = [rw EXCEPT ![p] =
                        IF local[p].useJSON
                        THEN Write(HeaderSet(w1, "ContentType", ApplicationJSON), Encode(response))
                        ELSE Write(HeaderSet(w1, "ContentType", TextPlain),
                                   IF st = Down /\ rs # <<>> THEN st \o <<":", " ">> \o rs ELSE st)]
       /\ pc' = [pc EXCEPT ![p] = Done]
       /\ UNCHANGED <<store, mutex, op, arg, local, ret, history>>

(* ------------------------ callers ------------------------------------- *)

\* the first step of each exported function
Entry(o) ==
    CASE o \in {"SetStatus", "SetReason"} -> <<o, "Lock">>
      [] o \in {"SetHealthy", "SetUnhealthy"} -> <<o, "SetStatus">>
      [] o \in {"GetStatus", "GetReason", "JSONHealthHandler"} -> <<o, "RLock">>
      [] o \in {"ServeHTTP", "HealthHandler"} -> <<"getStatus", "RLock">>
      [] o = "WithJSON" -> <<"WithJSON", "write">>
      [] o \in {"health.SetHealthy", "health.SetUnhealthy"} -> <<o, "Lock">>
      [] o = "HealthHandler.ServeHTTP" -> <<o, "RLock">>

\* the arguments a caller can pass to o
Args(o) ==
    CASE o = "SetStatus" -> {[NoArg EXCEPT !.status = s] : s \in Statuses}
      [] o \in {"SetReason", "SetUnhealthy", "health.SetUnhealthy"} ->
            {[NoArg EXCEPT !.reason = r] : r \in Reasons}
      [] o \in {"WithJSON", "HealthHandler.ServeHTTP"} -> {[NoArg EXCEPT !.v = b] : b \in BOOLEAN}
      [] o \in {"HealthHandler", "JSONHealthHandler"} -> {[NoArg EXCEPT !.ctx = c] : c \in CtxValues}
      [] OTHER -> {NoArg}

\* goroutine p calls exported function o with arguments a
Call(p, o, a) ==
    /\ pc[p] = Idle
    /\ pc' = [pc EXCEPT ![p] = Entry(o)]
    /\ op' = [op EXCEPT ![p] = o]
    /\ arg' = [arg EXCEPT ![p] = a]
    /\ UNCHANGED <<store, mutex, local, rw, ret>>

\* the call has returned; its caller goes on
Return(p) ==
    /\ pc[p] = Done
    /\ pc' = [pc EXCEPT ![p] = Idle]
    /\ op' = [op EXCEPT ![p] = "none"]
    /\ arg' = [arg EXCEPT ![p] = NoArg]
    /\ local' = [local EXCEPT ![p] = NoLocal]
    /\ rw' = [rw EXCEPT ![p] = NewRecorder]
    /\ ret' = [ret EXCEPT ![p] = NoRet]
    /\ UNCHANGED <<store, mutex>>

Ops ==
    {"SetStatus", "SetReason", "SetHealthy", "SetUnhealthy", "GetStatus", "GetReason",
     "ServeHTTP", "HealthHandler", "JSONHealthHandler", "WithJSON"}

\* a step of a call in progress, for the calls that leave useJSON alone
HealthyStep(p) ==
    \/ MutexLock(p)
    \/ MutexLockWait(p)
    \/ MutexUnlock(p)
    \/ MutexRLock(p)
    \/ MutexRUnlock(p)
    \/ SetStatus(p)
    \/ SetReason(p)
    \/ SetHealthy(p)
    \/ SetUnhealthy(p)
    \/ GetStatus(p)
    \/ GetReason(p)
    \/ getStatus(p)
    \/ ServeHTTP(p)
    \/ HealthHandler(p)
    \/ JSONHealthHandler(p)

\* a step of a call in progress
Step(p) ==
    \/ HealthyStep(p)
    \/ WithJSON(p)

\* history: the reasons SetUnhealthy was called with
TrackCall(o, a) ==
    /\ issued' = IF o = "SetUnhealthy" THEN issued \cup {a.reason} ELSE issued
    /\ UNCHANGED <<lastCall, lastJSON, healthyRun, separate, mux, want>>

NoCall == [status |-> <<>>, reason |-> <<>>]

\* history: what the setter call that returned last was to store
TrackReturn(p) ==
    /\ lastCall' = CASE op[p] = "SetHealthy" -> [status |-> Up, reason |-> <<>>]
                     [] op[p] = "SetUnhealthy" -> [status |-> Down, reason |-> arg[p].reason]
                     [] op[p] \in {"SetStatus", "SetReason"} -> NoCall
                     [] OTHER -> lastCall
    /\ lastJSON' = IF op[p] = "WithJSON" THEN arg[p].v ELSE lastJSON
    /\ healthyRun' = CASE op[p] = "SetHealthy" ->
                              IF healthyRun.n = 0
                              THEN [n |-> 1, status |-> status, reason |-> reason]
                              ELSE [healthyRun EXCEPT !.n = 2]
                        [] op[p] \in {"SetUnhealthy", "SetStatus", "SetReason"} ->
                              [n |-> 0, status |-> <<>>, reason |-> <<>>]
                        [] OTHER -> healthyRun
    /\ separate' = CASE op[p] = "SetStatus" -> [n |-> 1, status |-> arg[p].status, reason |-> <<>>]
                      [] op[p] = "SetReason" ->
                            IF separate.n = 1
                            THEN [n |-> 2, status |-> separate.status, reason |-> arg[p].reason]
                            ELSE [n |-> 0, status |-> <<>>, reason |-> <<>>]
                      [] op[p] \in {"SetHealthy", "SetUnhealthy"} ->
                            [n |-> 0, status |-> <<>>, reason |-> <<>>]
                      [] OTHER -> separate
    /\ UNCHANGED <<issued, mux, want>>

Quiescent == \A p \in Procs : pc[p] = Idle

(* Spec: any goroutine calls any exported function at any time. *)
Next ==
    \/ \E p \in Procs : \E o \in Ops : \E a \in Args(o) : Call(p, o, a) /\ UNCHANGED history
    \/ \E p \in Procs : Step(p)
    \/ \E p \in Procs : Return(p) /\ UNCHANGED history

Spec == Init /\ [][Next]_vars

(* SeqSpec: the calls are made one after another, as a test does. *)
SeqNext ==
    \/ \E p \in Procs : \E o \in Ops : \E a \in Args(o) :
          Quiescent /\ Call(p, o, a) /\ UNCHANGED history
    \/ \E p \in Procs : Step(p)
    \/ \E p \in Procs : Return(p) /\ TrackReturn(p)

SeqSpec == Init /\ [][SeqNext]_vars

(* HealthySpec: goroutines call SetHealthy and SetUnhealthy while others   *)
(* read the status and serve requests.                                     *)
HealthyOps ==
    {"SetHealthy", "SetUnhealthy", "GetStatus", "GetReason",
     "ServeHTTP", "HealthHandler", "JSONHealthHandler"}

HealthyNext ==
    \/ \E p \in Procs : \E o \in HealthyOps : \E a \in Args(o) : Call(p, o, a) /\ TrackCall(o, a)
    \/ \E p \in Procs : HealthyStep(p)
    \/ \E p \in Procs : Return(p) /\ UNCHANGED history

HealthySpec == Init /\ [][HealthyNext]_vars

(* FairSpec: every exported function, called by any goroutine at any time *)
(* with one argument value each (the mutex does not look at the values),   *)
(* under the scheduling Go gives.  A goroutine that can run does run;      *)
(* sync.Mutex hands the writer slot to a waiter that keeps being passed    *)
(* over, and RLock waiters are admitted when the writer unlocks.           *)
FairArgs(o) == {CHOOSE a \in Args(o) : a # NoArg \/ Args(o) = {NoArg}}

FairNext ==
    \/ \E p \in Procs : \E o \in Ops : \E a \in FairArgs(o) : Call(p, o, a) /\ UNCHANGED history
    \/ \E p \in Procs : Step(p)
    \/ \E p \in Procs : Return(p) /\ UNCHANGED history

Fairness ==
    \A p \in Procs :
        /\ WF_vars(Step(p) \/ (Return(p) /\ UNCHANGED history))
        /\ SF_vars(MutexLock(p))
        /\ SF_vars(MutexRLock(p))

FairSpec == Init /\ [][FairNext]_vars /\ Fairness

(* MuxSpec: the example server.  main mounts the handler on the paths of   *)
(* its router, each path once, with or without a WithJSON call; requests   *)
(* to the mounted paths are served while the status is set.                *)

\* Handle(): the one package-level handler
Handle == "handler"

Mounts == {"Handle()", "Handle().WithJSON(true)", "Handle().WithJSON(false)"}

\* router.Handle(q, Handle()) or router.Handle(q, Handle().WithJSON(v))
RouterHandle(q, m) ==
    /\ Quiescent
    /\ mux[q] = "nil"
    /\ mux' = [mux EXCEPT ![q] = Handle]
    /\ useJSON' = CASE m = "Handle().WithJSON(true)" -> TRUE
                    [] m = "Handle().WithJSON(false)" -> FALSE
                    [] OTHER -> useJSON
    /\ want' = [want EXCEPT ![q] = (m = "Handle().WithJSON(true)")]
    /\ UNCHANGED <<status, reason, mutex, pc, op, arg, local, rw, ret, issued, lastCall, lastJSON,
                   healthyRun, separate>>

\* the router dispatches a request for q to the handler mounted there
Dispatch(p, q) ==
    /\ mux[q] = Handle
    /\ Call(p, "ServeHTTP", [NoArg EXCEPT !.path = q])

MuxStep(p) ==
    \/ MutexLock(p)
    \/ MutexLockWait(p)
    \/ MutexUnlock(p)
    \/ MutexRLock(p)
    \/ MutexRUnlock(p)
    \/ SetStatus(p)
    \/ SetReason(p)
    \/ SetHealthy(p)
    \/ SetUnhealthy(p)
    \/ getStatus(p)
    \/ ServeHTTP(p)

MuxNext ==
    \/ \E q \in Paths : \E m \in Mounts : RouterHandle(q, m)
    \/ \E p \in Procs : \E q \in Paths : Dispatch(p, q) /\ UNCHANGED history
    \/ \E p \in Procs : \E o \in {"SetHealthy", "SetUnhealthy"} : \E a \in Args(o) :
          Call(p, o, a) /\ UNCHANGED history
    \/ \E p \in Procs : MuxStep(p)
    \/ \E p \in Procs : Return(p) /\ UNCHANGED history

MuxSpec == Init /\ [][MuxNext]_vars

(* HealthGoSpec: the package as src/health.go has it.  Goroutines set the  *)
(* status and read it while requests are served by handlers made with      *)
(* Handler() or Handler().WithJSON(v).                                     *)
HealthGoOps ==
    {"health.SetHealthy", "health.SetUnhealthy", "SetStatus", "SetReason", "GetStatus", "GetReason",
     "HealthHandler.ServeHTTP"}

HealthGoStep(p) ==
    \/ MutexLock(p)
    \/ MutexLockWait(p)
    \/ MutexUnlock(p)
    \/ MutexRLock(p)
    \/ MutexRUnlock(p)
    \/ SetHealthyLocked(p)
    \/ SetUnhealthyLocked(p)
    \/ SetStatus(p)
    \/ SetReason(p)
    \/ GetStatus(p)
    \/ GetReason(p)
    \/ HealthHandlerServeHTTP(p)

HealthGoNext ==
    \/ \E p \in Procs : \E o \in HealthGoOps : \E a \in Args(o) : Call(p, o, a) /\ UNCHANGED history
    \/ \E p \in Procs : HealthGoStep(p)
    \/ \E p \in Procs : Return(p) /\ UNCHANGED history

HealthGoSpec == Init /\ [][HealthGoNext]_vars

(* ======================== the claims ================================== *)

HandlerOps == {"ServeHTTP", "HealthHandler", "JSONHealthHandler"}

\* p serves a request and has copied status and reason under its read lock
HasSnapshot(p) ==
    /\ op[p] \in HandlerOps
    /\ pc[p][2] \in {"RUnlock", "write"} \/ pc[p] = Done

\* p's request has been answered
Responded(p) == op[p] \in HandlerOps /\ pc[p] = Done

\* the pair one SetHealthy or SetUnhealthy call stores
OneCallsPair(st, rs) ==
    \/ st = Up /\ rs = <<>>
    \/ st = Down /\ rs \in issued

(* C1 (HealthySpec): with SetHealthy and SetUnhealthy calls running, every *)
(* (status, reason) a handler copies under its read lock is (Up, "") or    *)
(* (Down, r) for the r of a SetUnhealthy call.  The code does not keep it: *)
(* the two setters release the lock between the status and the reason.     *)
C1_SnapshotIsOneCallsPair ==
    \A p \in Procs : HasSnapshot(p) => OneCallsPair(local[p].status, local[p].reason)

(* C2 (HealthySpec): once every SetHealthy and SetUnhealthy call has       *)
(* returned, the stored pair is (Up, "") or (Down, r) for an issued r.     *)
(* The code does not keep it: two calls can interleave their halves.       *)
C2_StoreRestsAtOneCallsPair ==
    Quiescent => OneCallsPair(status, reason)

(* C3 (SeqSpec): with the calls made one after another, GetStatus() and    *)
(* GetReason() return what the last SetHealthy/SetUnhealthy call was to    *)
(* store, (Up, "") when there was none, whatever was called before it.     *)
C3_GettersReturnLastCall ==
    \A p \in Procs :
        pc[p] = Done /\ lastCall # NoCall =>
            /\ op[p] = "GetStatus" => ret[p] = lastCall.status
            /\ op[p] = "GetReason" => ret[p] = lastCall.reason

\* GetReason() has returned the reason of the SetUnhealthy call made before it
C3_Witness ==
    \E p \in Procs :
        /\ pc[p] = Done /\ op[p] = "GetReason"
        /\ lastCall.status = Down /\ lastCall.reason # <<>>
        /\ ret[p] = lastCall.reason

(* C4 (SeqSpec): every response of ServeHTTP, HealthHandler and               *)
(* JSONHealthHandler, in either format, has code 200 when the status read  *)
(* for it is Up and 503 when it is Down, whatever the reason.              *)
C4_StatusCodeMapping ==
    \A p \in Procs :
        Responded(p) =>
            /\ local[p].status = Up => rw[p].code = StatusOK
            /\ local[p].status = Down => rw[p].code = StatusServiceUnavailable

\* a plain-text ServeHTTP response for Down without a reason has been written with 503
C4_Witness ==
    \E p \in Procs :
        /\ Responded(p) /\ op[p] = "ServeHTTP" /\ ~local[p].useJSON
        /\ local[p].status = Down /\ local[p].reason = <<>>
        /\ rw[p].code = StatusServiceUnavailable

MutexFree == mutex.writer = NoProc /\ mutex.readers = {}

(* C5 (FairSpec): under fair scheduling every call that was begun returns, *)
(* and whenever no call is in progress nobody holds the mutex.             *)
C5_CallsReturnLockFreed ==
    /\ [](Quiescent => MutexFree)
    /\ \A p \in Procs : (pc[p] # Idle) ~> (pc[p] = Idle)

\* a writer waits in Lock() for a reader that holds the read lock
C5_Witness ==
    \E p, q \in Procs : pc[p][2] = "LockWait" /\ q \in mutex.readers /\ pc[q][2] = "read"

\* p's response is JSON
JSONResponse(p) ==
    Responded(p) /\ (op[p] = "JSONHealthHandler" \/ local[p].useJSON)

\* the JSON object b has a member "reason" whose value is not ""
HasReason(b) ==
    \E i \in 2..Len(b) :
        /\ b[i - 1] = ","
        /\ SubSeq(b, i, i + Len(ReasonKey) - 1) = ReasonKey
        /\ SubSeq(b, i + Len(ReasonKey), i + Len(ReasonKey) + 1) # <<"\"", "\"">>

(* C6 (SeqSpec): in every state the public setters reach, a JSON response  *)
(* for status Up has no reason member, or an empty one.  The code does not *)
(* keep it: the body carries whatever reason is stored.                    *)
C6_UpJSONHasNoReason ==
    \A p \in Procs : JSONResponse(p) /\ local[p].status = Up => ~HasReason(rw[p].body)

(* C7 as stated (SeqSpec): with no setter call in progress, status = Up    *)
(* implies reason = "".  SetStatus and SetReason do not keep it.           *)
C7_UpImpliesNoReason ==
    Quiescent => (status = Up => reason = <<>>)

(* C7 as amended (SeqSpec): the reason is cleared by SetHealthy(): when a  *)
(* SetHealthy() call that overlaps no other setter call returns, the       *)
(* status is Up and the reason is "".                                      *)
C7_SetHealthyClearsReason ==
    \A p \in Procs : pc[p] = Done /\ op[p] = "SetHealthy" => status = Up /\ reason = <<>>

\* SetHealthy() has returned, and the setter call before it was SetUnhealthy with a reason
C7_Witness ==
    \E p \in Procs :
        /\ pc[p] = Done /\ op[p] = "SetHealthy"
        /\ lastCall.status = Down /\ lastCall.reason # <<>>

(* C8 (MuxSpec): a path mounted with Handle() alone serves plain text and  *)
(* a path mounted with Handle().WithJSON(v) serves the format v, whatever  *)
(* was mounted on the other paths and in whatever order.  The code does    *)
(* not keep it: every Handle() is the same handler.                        *)
C8_MountsAreIndependent ==
    \A p \in Procs :
        Responded(p) /\ arg[p].path \in Paths => local[p].useJSON = want[arg[p].path]

(* C9 (SeqSpec): the plain-text body of the shared handler is the status,  *)
(* then ": ", then the reason: "UP: " after SetHealthy() and "DOWN: r"     *)
(* after SetUnhealthy(r).                                                  *)
C9_PlainTextBody ==
    \A p \in Procs :
        Responded(p) /\ op[p] \in {"ServeHTTP", "HealthHandler"} /\ ~local[p].useJSON =>
            /\ rw[p].body = local[p].status \o <<":", " ">> \o local[p].reason
            /\ lastCall = [status |-> Up, reason |-> <<>>] => rw[p].body = <<"U", "P", ":", " ">>
            /\ lastCall.status = Down =>
                   rw[p].body = <<"D", "O", "W", "N", ":", " ">> \o lastCall.reason

\* "DOWN: r" has been served after SetUnhealthy(r)
C9_Witness ==
    \E p \in Procs :
        /\ Responded(p) /\ op[p] = "ServeHTTP" /\ ~local[p].useJSON
        /\ lastCall.status = Down /\ lastCall.reason # <<>>
        /\ rw[p].body = <<"D", "O", "W", "N", ":", " ">> \o lastCall.reason

(* C10 (SeqSpec): SetStatus(s) changes the status and nothing else, and    *)
(* SetReason(r) the reason and nothing else: after SetStatus(s) the reason *)
(* is the one the last SetHealthy/SetUnhealthy call left ("" when none was *)
(* made, r after SetUnhealthy(r)), and after SetReason(r) the status is    *)
(* the one that call left.                                                 *)
C10_IndependentSetters ==
    /\ [][\A p \in Procs :
            /\ SetStatus(p) => status' = arg[p].status /\ reason' = reason /\ useJSON' = useJSON
            /\ SetReason(p) => reason' = arg[p].reason /\ status' = status /\ useJSON' = useJSON]_vars
    /\ [](\A p \in Procs :
            pc[p] = Done /\ lastCall # NoCall =>
                /\ op[p] = "SetStatus" => status = arg[p].status /\ reason = lastCall.reason
                /\ op[p] = "SetReason" => reason = arg[p].reason /\ status = lastCall.status)

\* SetStatus(Up) has returned after SetUnhealthy(r), and r is still the reason
C10_Witness ==
    \E p \in Procs :
        /\ pc[p] = Done /\ op[p] = "SetStatus" /\ arg[p].status = Up
        /\ lastCall.status = Down /\ lastCall.reason # <<>>
        /\ status = Up /\ reason = lastCall.reason

SetterOps == {"SetHealthy", "SetUnhealthy", "SetStatus", "SetReason"}

\* goroutine p takes the step
Moves(p) == pc'[p] # pc[p]

(* C11 (Spec): the handlers only read the health state.  In every          *)
(* interleaving of every exported function, a step of a request served by  *)
(* ServeHTTP, HealthHandler() or JSONHealthHandler() leaves the stored     *)
(* status and reason as they were, and a step that changes the stored pair *)
(* is the assignment of SetStatus or of SetReason, made by a goroutine     *)
(* that called SetHealthy, SetUnhealthy, SetStatus or SetReason.           *)
C11_HandlersOnlyRead ==
    [][/\ \A p \in Procs :
             Moves(p) /\ op[p] \in HandlerOps => status' = status /\ reason' = reason
       /\ <<status, reason>>' # <<status, reason>> =>
             \E p \in Procs :
                 /\ op[p] \in SetterOps
                 /\ Moves(p)
                 /\ pc[p] \in {<<"SetStatus", "write">>, <<"SetReason", "write">>}]_vars

\* a request was served from (Down, r) while no setter was running, and (Down, r) is still stored
C11_Witness ==
    \E p \in Procs :
        /\ Responded(p)
        /\ local[p].status = Down /\ local[p].reason # <<>>
        /\ status = local[p].status /\ reason = local[p].reason
        /\ \A q \in Procs : op[q] \notin SetterOps

AdapterOps == {"HealthHandler", "JSONHealthHandler"}

\* the status code and body entry point o gives for the pair (st, rs) in format json
ResponseOf(o, st, rs, json) ==
    IF o = "JSONHealthHandler"
    THEN [statusCode |-> IF st = Down THEN StatusServiceUnavailable ELSE StatusOK,
          body |-> Marshal([Status |-> st, Reason |-> rs])]
    ELSE [statusCode |-> Render(st, rs, json).statusCode, body |-> Render(st, rs, json).body]

\* the response an adapter gives for the pair it read, whatever the context holds
AdapterResponse(p) == ResponseOf(op[p], local[p].status, local[p].reason, local[p].useJSON)

(* C12 (SeqSpec): a response of HealthHandler() or JSONHealthHandler()     *)
(* carries X-Request-ID equal to the request identifier when the context   *)
(* holds a non-empty string one, carries no X-Request-ID when the context  *)
(* holds none or a value that is not a string, and in every case the       *)
(* adapter returns nil with the status code and body of the stored pair.   *)
(* The code does not keep it: the lookup uses the plain string key, so an  *)
(* identifier stored under RequestIDKey is not found.                      *)
C12_RequestIDForwarded ==
    \A p \in Procs :
        pc[p] = Done /\ op[p] \in AdapterOps =>
            /\ arg[p].ctx.kind = "string" /\ arg[p].ctx.s # <<>> =>
                   rw[p].sentHeader.XRequestID = arg[p].ctx.s
            /\ arg[p].ctx.kind # "string" => rw[p].sentHeader.XRequestID = <<>>
            /\ ret[p] = <<"nil">>
            /\ rw[p].code = AdapterResponse(p).statusCode
            /\ rw[p].body = AdapterResponse(p).body

\* p's request has been answered, by a handler of either form of the package
Served(p) == pc[p] = Done /\ op[p] \in HandlerOps \cup {"HealthHandler.ServeHTTP"}

(* C13 (HealthGoSpec): every response is committed with the Content-Type   *)
(* of its format: the headers sent by WriteHeader have Content-Type        *)
(* application/json for a JSON response and text/plain for a plain-text    *)
(* one.  The code does not keep it: src/health.go sets the header after    *)
(* WriteHeader, and the shared handler sets none in plain-text mode.       *)
C13_ContentTypeBeforeCommit ==
    \A p \in Procs :
        Served(p) =>
            rw[p].sentHeader.ContentType =
                IF op[p] = "JSONHealthHandler" \/ local[p].useJSON THEN ApplicationJSON ELSE TextPlain

(* C14 (SeqSpec): with the calls made one after another, a response of     *)
(* HealthHandler() is JSON, committed with Content-Type application/json,  *)
(* exactly when the WithJSON call made last on the shared handler passed   *)
(* true; it is the plain text of the stored pair, without that header,     *)
(* when it passed false or WithJSON was never called; whatever requests    *)
(* were served before.                                                     *)
C14_AdapterFollowsWithJSON ==
    \A p \in Procs :
        pc[p] = Done /\ op[p] = "HealthHandler" =>
            IF lastJSON
            THEN /\ rw[p].sentHeader.ContentType = ApplicationJSON
                 /\ rw[p].body = Marshal([Status |-> status, Reason |-> reason])
            ELSE /\ rw[p].sentHeader.ContentType # ApplicationJSON
                 /\ rw[p].body = status \o <<":", " ">> \o reason

\* HealthHandler() has answered in JSON after WithJSON(true), and the JSON differs from the text
C14_Witness ==
    \E p \in Procs :
        /\ pc[p] = Done /\ op[p] = "HealthHandler"
        /\ lastJSON /\ status = Down /\ reason # <<>>
        /\ rw[p].sentHeader.ContentType = ApplicationJSON
        /\ rw[p].body = Marshal([Status |-> Down, Reason |-> reason])

\* b starts with the text t
StartsWith(b, t) == Len(b) >= Len(t) /\ SubSeq(b, 1, Len(t)) = t

Drop(b, n) == SubSeq(b, n + 1, Len(b))

\* a JSON string read from b, which starts after the opening quote
RECURSIVE ReadString(_, _)
ReadString(b, acc) ==
    IF b = <<>> THEN [ok |-> FALSE, s |-> acc, rest |-> <<>>]
    ELSE IF Head(b) = "\"" THEN [ok |-> TRUE, s |-> acc, rest |-> Tail(b)]
    ELSE IF Head(b) = "\\"
         THEN IF Len(b) < 2 THEN [ok |-> FALSE, s |-> acc, rest |-> <<>>]
              ELSE IF b[2] = "u"
                   THEN IF StartsWith(b, <<"\\", "u", "f", "f", "f", "d">>)
                        THEN ReadString(Drop(b, 6), Append(acc, uFFFD))
                        ELSE [ok |-> FALSE, s |-> acc, rest |-> <<>>]
              ELSE ReadString(Tail(Tail(b)), Append(acc, b[2]))
    ELSE ReadString(Tail(b), Append(acc, Head(b)))

NotJSON == [ok |-> FALSE, Status |-> <<>>, Reason |-> <<>>, hasReason |-> FALSE]

\* json.Unmarshal(body, &responseBody{}), as the tests decode a response
Unmarshal(b) ==
    IF ~StartsWith(b, <<"{">> \o StatusKey \o <<"\"">>) THEN NotJSON
    ELSE LET st == ReadString(Drop(b, Len(StatusKey) + 2), <<>>)
         IN  IF ~st.ok THEN NotJSON
             ELSE IF st.rest = <<"}">>
                  THEN [ok |-> TRUE, Status |-> st.s, Reason |-> <<>>, hasReason |-> FALSE]
             ELSE IF ~StartsWith(st.rest, <<",">> \o ReasonKey \o <<"\"">>) THEN NotJSON
             ELSE LET rs == ReadString(Drop(st.rest, Len(ReasonKey) + 2), <<>>)
                  IN  IF rs.ok /\ rs.rest = <<"}">>
                      THEN [ok |-> TRUE, Status |-> st.s, Reason |-> rs.s, hasReason |-> TRUE]
                      ELSE NotJSON

(* C15 as stated (SeqSpec): whatever useJSON is and whatever pair is       *)
(* stored, a response of JSONHealthHandler() is committed with             *)
(* Content-Type application/json and its body decodes as a JSON object     *)
(* whose status is the stored status string and whose reason is the stored *)
(* reason, the reason member being left out when the reason is empty.      *)
(* A reason with a byte that is not valid UTF-8 does not come back.        *)
C15_JSONAdapterAlwaysJSON ==
    \A p \in Procs :
        pc[p] = Done /\ op[p] = "JSONHealthHandler" =>
            /\ rw[p].sentHeader.ContentType = ApplicationJSON
            /\ Unmarshal(rw[p].body).ok
            /\ Unmarshal(rw[p].body).Status = status
            /\ Unmarshal(rw[p].body).Reason = reason
            /\ Unmarshal(rw[p].body).hasReason <=> reason # <<>>

\* the string a JSON encoding carries: each invalid byte has become U+FFFD
RECURSIVE CoerceUTF8(_)
CoerceUTF8(s) ==
    IF s = <<>> THEN <<>>
    ELSE <<IF Head(s) = xFF THEN uFFFD ELSE Head(s)>> \o CoerceUTF8(Tail(s))

(* C15 as amended (SeqSpec): whatever useJSON is and whatever pair is      *)
(* stored, a response of JSONHealthHandler() is committed with             *)
(* Content-Type application/json and its body decodes as a JSON object     *)
(* whose status and reason are the stored ones with every byte that is not *)
(* valid UTF-8 replaced by U+FFFD (the stored ones themselves when they    *)
(* are valid UTF-8); the reason member is left out when the reason is      *)
(* empty.                                                                  *)
C15_JSONAdapterEncodesPair ==
    \A p \in Procs :
        pc[p] = Done /\ op[p] = "JSONHealthHandler" =>
            /\ rw[p].sentHeader.ContentType = ApplicationJSON
            /\ Unmarshal(rw[p].body).ok
            /\ Unmarshal(rw[p].body).Status = CoerceUTF8(status)
            /\ Unmarshal(rw[p].body).Reason = CoerceUTF8(reason)
            /\ Unmarshal(rw[p].body).hasReason <=> reason # <<>>

\* JSONHealthHandler() has answered in JSON while the handler is configured for plain text,
\* for a reason with an invalid byte
C15_Witness ==
    \E p \in Procs :
        /\ pc[p] = Done /\ op[p] = "JSONHealthHandler"
        /\ ~useJSON /\ status = Down /\ reason = <<xFF>>
        /\ rw[p].sentHeader.ContentType = ApplicationJSON
        /\ Unmarshal(rw[p].body).Reason = <<uFFFD>>

(* C16 (SeqSpec): SetHealthy() is idempotent.  When SetHealthy() has been   *)
(* called twice or more in a row, from whatever state, the stored pair is  *)
(* the one the first of these calls left, and the response of every entry  *)
(* point served afterwards is the one for that pair.                       *)
C16_SetHealthyIdempotent ==
    healthyRun.n = 2 /\ (\A q \in Procs : op[q] \notin SetterOps) =>
        /\ status = healthyRun.status
        /\ reason = healthyRun.reason
        /\ \A p \in Procs :
               Responded(p) =>
                   LET once == ResponseOf(op[p], healthyRun.status, healthyRun.reason, useJSON)
                   IN  rw[p].code = once.statusCode /\ rw[p].body = once.body

\* a request has been served after SetHealthy() was called twice in a row
C16_Witness ==
    \E p \in Procs :
        /\ healthyRun.n = 2 /\ healthyRun.status = Up
        /\ Responded(p) /\ rw[p].code = StatusOK

\* the text of b before the first c
RECURSIVE TakeUntil(_, _)
TakeUntil(b, c) ==
    IF b = <<>> \/ Head(b) = c THEN <<>> ELSE <<Head(b)>> \o TakeUntil(Tail(b), c)

\* the status a response body shows
BodyStatus(p) ==
    IF JSONResponse(p) THEN Unmarshal(rw[p].body).Status ELSE TakeUntil(rw[p].body, ":")

\* the reason a response body shows
BodyReason(p) ==
    IF JSONResponse(p) THEN Unmarshal(rw[p].body).Reason
    ELSE Drop(rw[p].body, Len(BodyStatus(p)) + 2)

(* C17 (Spec): each response is built from one snapshot.  With any calls   *)
(* running concurrently, the status and reason a handler has read are the  *)
(* stored pair of one instant (they are still the stored pair when it      *)
(* gives the read lock back), and the status code, the status in the body  *)
(* and the reason in the body of its response are those of that pair: 200  *)
(* for Up, 503 for Down, never 503 with "UP" or 200 with "DOWN".           *)
C17_OneSnapshot ==
    \A p \in Procs :
        /\ op[p] \in HandlerOps /\ pc[p][2] = "RUnlock" =>
               local[p].status = status /\ local[p].reason = reason
        /\ Responded(p) =>
               /\ BodyStatus(p) = local[p].status
               /\ BodyReason(p) =
                      IF JSONResponse(p) THEN CoerceUTF8(local[p].reason) ELSE local[p].reason
               /\ local[p].status = Up => rw[p].code = StatusOK
               /\ local[p].status = Down => rw[p].code = StatusServiceUnavailable
               /\ rw[p].code = StatusServiceUnavailable => BodyStatus(p) # Up
               /\ rw[p].code = StatusOK => BodyStatus(p) # Down

\* a response for (Down, r) has been written while a setter has since made the status Up
C17_Witness ==
    \E p \in Procs :
        /\ Responded(p)
        /\ local[p].status = Down /\ local[p].reason # <<>>
        /\ rw[p].code = StatusServiceUnavailable /\ BodyStatus(p) = Down
        /\ status = Up

\* p is at a statement that writes a field of the shared handler
AtWrite(p) == pc[p] \in {<<"SetStatus", "write">>, <<"SetReason", "write">>, <<"WithJSON", "write">>}

\* p is at a statement that reads a field of the shared handler
AtRead(p) == pc[p][2] \in {"read", "readReason", "readUseJSON"}

\* the field of the shared handler the statement p is at reads or writes
Field(p) ==
    CASE pc[p] \in {<<"SetStatus", "write">>, <<"GetStatus", "read">>} -> "status"
      [] pc[p] \in {<<"SetReason", "write">>, <<"GetReason", "read">>} -> "reason"
      [] pc[p] = <<"WithJSON", "write">> \/ pc[p][2] = "readUseJSON" -> "useJSON"
      [] pc[p][2] = "read" -> "status"
      [] pc[p][2] = "readReason" -> "reason"
      [] OTHER -> "none"

(* C18 (Spec): every access to status, reason and useJSON of the shared    *)
(* handler is made under the lock: a goroutine at a write holds the mutex  *)
(* exclusively, a goroutine at a read holds it shared, and so no write of  *)
(* a field is ever enabled together with another access to that field.     *)
(* The code does not keep it: WithJSON assigns useJSON without locking.    *)
C18_AccessesUnderLock ==
    /\ \A p \in Procs : AtWrite(p) => mutex.writer = p /\ mutex.readers = {}
    /\ \A p \in Procs : AtRead(p) => p \in mutex.readers
    /\ \A p, q \in Procs :
           p # q /\ AtWrite(p) /\ (AtWrite(q) \/ AtRead(q)) => Field(p) # Field(q)

\* the race itself: WithJSON is at its write while a request reads useJSON
RaceOnUseJSON ==
    \E p, q \in Procs :
        /\ pc[p] = <<"WithJSON", "write">>
        /\ pc[q] = <<"getStatus", "readUseJSON">> /\ q \in mutex.readers

\* the store holds pair, and every response written is the one for pair
StoredAndServed(pair) ==
    /\ status = pair.status
    /\ reason = pair.reason
    /\ \A p \in Procs :
           Responded(p) =>
               LET r == ResponseOf(op[p], pair.status, pair.reason, local[p].useJSON)
               IN  rw[p].code = r.statusCode /\ rw[p].body = r.body

\* SetStatus(Down); SetReason(r) or SetStatus(Up); SetReason("") were the last setter calls
SeparateCalls ==
    /\ separate.n = 2
    /\ separate.status = Down \/ (separate.status = Up /\ separate.reason = <<>>)

(* C19 (SeqSpec): with the calls made one after another, SetUnhealthy(r)   *)
(* and SetStatus(Down); SetReason(r) leave the same stored pair, (Down, r),*)
(* and the same response of every entry point in both formats, and so do   *)
(* SetHealthy() and SetStatus(Up); SetReason(""), with (Up, "").           *)
C19_CombinedEqualsSeparate ==
    (\A q \in Procs : op[q] \notin SetterOps) =>
        /\ lastCall # NoCall => StoredAndServed(lastCall)
        /\ SeparateCalls => StoredAndServed([status |-> separate.status, reason |-> separate.reason])

\* a JSON response has been served after SetStatus(Down); SetReason(r)
C19_Witness ==
    \E p \in Procs :
        /\ SeparateCalls /\ separate.status = Down /\ separate.reason # <<>>
        /\ Responded(p) /\ op[p] = "ServeHTTP" /\ local[p].useJSON
        /\ rw[p].code = StatusServiceUnavailable
        /\ rw[p].body = Marshal([Status |-> Down, Reason |-> separate.reason])

(* C20 (Spec): the two JSON entry points agree.  A response of             *)
(* JSONHealthHandler() and a JSON-mode response of the shared handler       *)
(* (ServeHTTP or HealthHandler() with useJSON true) built from the same    *)
(* status and reason, the status being any Status SetStatus accepts, have  *)
(* the same status code and the same body.  The code does not keep it: for *)
(* a status that is neither Up nor Down the codes differ.                  *)
C20_JSONEntryPointsAgree ==
    \A p, q \in Procs :
        /\ Responded(p) /\ op[p] = "JSONHealthHandler"
        /\ Responded(q) /\ op[q] \in {"ServeHTTP", "HealthHandler"} /\ local[q].useJSON
        /\ local[p].status = local[q].status /\ local[p].reason = local[q].reason
        => rw[p].code = rw[q].code /\ rw[p].body = rw[q].body

=============================================================================
